---- MODULE Spec2Model ----
(***************************************************************************)
(* Model of the session / dual-backend coordination layer of myvote-web:   *)
(*   Web3Service            (src/app/lib/web3.ts)                           *)
(*   ApiService             (lib/api.ts, first file of unnamed/part_001)    *)
(*   Web3IntegrationService (src/app/lib/web3-integration.ts)               *)
(* and of the admin pages that drive them (the pages under src/app/admin   *)
(* and the page files among unnamed/part_000 .. part_003).                 *)
(* Strings that the code inspects character by character (addresses) are   *)
(* sequences of one-character strings; null is a value distinct from the   *)
(* empty string.  Every asynchronous method is cut at its awaits: one      *)
(* action up to the await, one action for the continuation.                *)
(***************************************************************************)
EXTENDS Integers, Sequences, FiniteSets, TLC

\* ------------------------------------------------------------------ bounds
\* number of distinct wallet accounts the environment can expose
NumAccounts == 2
\* number of distinct human-readable messages the off-chain store can return
NumMsgs == 1

\* ------------------------------------------------------------ value domains
NULL == <<"null">>
EMPTY == <<>>
ETHEREUM == <<"ethereum">>
CONTRACT == <<"contract">>
THROWN == <<"thrown">>

AddrList ==
  << <<"a", "B">>, <<"A", "b">>, <<"c", "D">>, <<"a", "b">>, <<"C", "d">>, <<"A", "B">> >>

Min(a, b) == IF a < b THEN a ELSE b

Accounts == { AddrList[i] : i \in 1..Min(NumAccounts, Len(AddrList)) }

MsgList == << "Voter verified successfully", "Voter not found", "Not authorized", "Server error" >>

Msgs == { MsgList[i] : i \in 1..Min(NumMsgs, Len(MsgList)) }

\* JavaScript truthiness of a string | null value
Truthy(s) == s # NULL /\ s # EMPTY

\* String.prototype.toLowerCase on the modelled alphabet
ToLowerChar(c) ==
  CASE c = "A" -> "a"
    [] c = "B" -> "b"
    [] c = "C" -> "c"
    [] c = "D" -> "d"
    [] OTHER -> c

toLowerCase(s) == [i \in 1..Len(s) |-> ToLowerChar(s[i])]

\* ------------------------------------------------------------------- state
VARIABLES
  ADMIN_ADDRESS,   \* Web3IntegrationService.ADMIN_ADDRESS (readonly)
  DEV_MODE,        \* Web3IntegrationService.DEV_MODE (readonly)
  dummyMode,       \* Web3Service.dummyMode
  provider,        \* Web3Service.provider
  signer,          \* Web3Service.signer: NULL or the account the signer signs for
  contract,        \* Web3Service.contract: NULL or CONTRACT
  currentAddress,  \* Web3IntegrationService.currentAddress
  adminAddress,    \* ApiService.adminAddress
  initRet,         \* value returned by the last web3Integration.initialize()
  isAdminRet,      \* isAdmin() call made by the last step: address seen, value returned
  op,              \* coordinator write operation in flight or last completed
  pc,              \* its position
  args,            \* its parameters
  storeAnswer,     \* what the off-chain store answers to this operation's request
  ledgerCalls,     \* ledger-client calls made by this invocation
  ledgerRes,       \* outcome of the ledger call of this invocation
  apiCalls,        \* apiService calls made by this invocation
  apiState,        \* progress / outcome of the apiService call
  apiMessage,      \* message of the error thrown by the apiService call
  sent,            \* HTTP requests issued by this invocation
  result,          \* value the invocation resolved to
  toast,           \* toast shown by this invocation
  lastReq,         \* administrative HTTP request issued by the last step
  readRet,         \* read operation performed by the last step and how it ended
  mounted,         \* admin page shown ("none" before the first navigation)
  timers,          \* pending setTimeout(initWeb3, 800) callbacks, oldest first
  flows,           \* initialize() calls in flight
  isConnected,     \* React state of the mounted page: isConnected
  loading,         \* React state of the mounted page: loading
  pageIsAdmin,     \* React state of the mounted page: isAdmin
  load,            \* data load of the mounted page
  why,             \* why the mounted page's connect step failed
  submitting,      \* React state of the schedule-elections page: submitting
  pageTx,          \* web3Service.scheduleElection call made by onSubmit
  click,           \* handler of the mounted page run by the last step
  inflight,        \* list requests of the mounted page awaiting their response
  action,          \* logs page, React state action (selected action filter)
  status,          \* logs page, React state status (selected status filter)
  currentPage,     \* logs / verify-users page, React state currentPage
  pagination,      \* logs page: pagination; verify-users page: totalPages
  shown,           \* request whose response filled the list on display
  searches,        \* verify-users page, pending setTimeout(loadUsers, 500) callbacks
  selectedElectionId, \* manage-candidates page, React state selectedElectionId (0: null)
  candidates,      \* manage-candidates page, React state candidates
  candTx           \* web3Service.addCandidate call made by the page's onSubmit

cfgVars == <<ADMIN_ADDRESS, DEV_MODE, dummyMode>>
web3Vars == <<provider, signer, contract>>
callVars == <<op, pc, args, storeAnswer, ledgerCalls, ledgerRes, apiCalls,
              apiState, apiMessage, sent, result, toast>>
viewVars == <<inflight, action, status, currentPage, pagination, shown,
              searches, selectedElectionId, candidates, candTx>>
pageVars == <<mounted, timers, flows, isConnected, loading, pageIsAdmin, load,
              why, submitting, pageTx, inflight, action, status,
              currentPage, pagination, shown, searches, selectedElectionId,
              candidates, candTx>>
vars == <<ADMIN_ADDRESS, DEV_MODE, dummyMode, provider, signer, contract,
          currentAddress, adminAddress, initRet, isAdminRet,
          op, pc, args, storeAnswer, ledgerCalls, ledgerRes, apiCalls,
          apiState, apiMessage, sent, result, toast, lastReq, readRet,
          mounted, timers, flows, isConnected, loading, pageIsAdmin, load,
          why, submitting, pageTx, click, inflight, action, status,
          currentPage, pagination, shown, searches, selectedElectionId,
          candidates, candTx>>

\* process.env.NEXT_PUBLIC_ADMIN_ADDRESS || '0x3B45...47a7'
DefaultAdmin == <<"3", "B">>

EnvAdminChoices == Accounts \cup {EMPTY}

AdminFromEnv(env) == IF Truthy(env) THEN env ELSE DefaultAdmin

NoToast == [kind |-> "none", text |-> ""]
NoReq == [kind |-> "none", header |-> NULL, cur |-> NULL, body |-> NULL]
NoAnswer == [kind |-> "none", message |-> ""]
NoArgs == [none |-> TRUE]
NotCalled == [called |-> FALSE, cur |-> NULL, ret |-> FALSE]
NoRead == [op |-> "none", failed |-> FALSE, outcome |-> "none", toast |-> ""]
NoTx == [state |-> "none", live |-> FALSE]
NoClick == [handler |-> "none", page |-> 0]
NoQuery == [page |-> 0, action |-> "", status |-> ""]
FirstPage == [page |-> 1, pages |-> 1]
NoCandidates == [of |-> 0, got |-> "none"]
NoCandTx == [state |-> "none", id |-> 0]

\* answers of the off-chain store: 2xx with a message, 2xx without one, or an
\* error (non-2xx status or network failure) carrying a message
StoreAnswers ==
  [kind : {"ok"}, message : Msgs \cup {""}] \cup [kind : {"error"}, message : Msgs]

\* outcome of a contract transaction: mined, or the call / tx.wait() throws
TxOutcomes == {"mined", "thrown"}

Init ==
  /\ \E env \in EnvAdminChoices : ADMIN_ADDRESS = AdminFromEnv(env)
  /\ DEV_MODE \in BOOLEAN
  /\ dummyMode \in BOOLEAN
  /\ provider = NULL
  /\ signer = NULL
  /\ contract = NULL
  /\ currentAddress = NULL
  /\ adminAddress = NULL
  /\ initRet = "none"
  /\ isAdminRet = NotCalled
  /\ op = "none"
  /\ pc = "Idle"
  /\ args = NoArgs
  /\ storeAnswer = NoAnswer
  /\ ledgerCalls = 0
  /\ ledgerRes = "none"
  /\ apiCalls = 0
  /\ apiState = "none"
  /\ apiMessage = ""
  /\ sent = <<>>
  /\ result = "none"
  /\ toast = NoToast
  /\ lastReq = NoReq
  /\ readRet = NoRead
  /\ mounted = "none"
  /\ timers = <<>>
  /\ flows = <<>>
  /\ isConnected = FALSE
  /\ loading = TRUE
  /\ pageIsAdmin = FALSE
  /\ load = "none"
  /\ why = "none"
  /\ submitting = FALSE
  /\ pageTx = NoTx
  /\ click = NoClick
  /\ inflight = <<>>
  /\ action = ""
  /\ status = ""
  /\ currentPage = 1
  /\ pagination = FirstPage
  /\ shown = NoQuery
  /\ searches = 0
  /\ selectedElectionId = 0
  /\ candidates = NoCandidates
  /\ candTx = NoCandTx

\* ------------------------------------------------------ authorization policy
isUserAdmin_noDevMode ==
  currentAddress # NULL /\ toLowerCase(currentAddress) = toLowerCase(ADMIN_ADDRESS)

isUserAdmin_caseSensitive ==
  IF DEV_MODE /\ Truthy(currentAddress)
  THEN TRUE
  ELSE currentAddress # NULL /\ currentAddress = ADMIN_ADDRESS

isUserAdmin ==
  IF DEV_MODE /\ Truthy(currentAddress)
  THEN TRUE
  ELSE currentAddress # NULL /\ toLowerCase(currentAddress) = toLowerCase(ADMIN_ADDRESS)

\* variant: isAdmin() re-reads the identity from the ledger client's signer
isAdmin_refresh ==
  /\ pc = "Idle"
  /\ currentAddress' = signer
  /\ isAdminRet' = [called |-> TRUE, cur |-> currentAddress, ret |-> isUserAdmin]
  /\ readRet' = NoRead
  /\ lastReq' = NoReq
  /\ click' = NoClick
  /\ UNCHANGED <<pageVars, cfgVars, web3Vars, adminAddress, initRet, callVars>>

\* web3Integration.isAdmin(), as the pages call it after the connect step.
\* Getters and reads neither read nor write the state of a write operation
\* in flight, so they are taken between write operations only.
isAdmin ==
  /\ pc = "Idle"
  /\ isAdminRet' = [called |-> TRUE, cur |-> currentAddress, ret |-> isUserAdmin]
  /\ readRet' = NoRead
  /\ lastReq' = NoReq
  /\ click' = NoClick
  /\ UNCHANGED <<pageVars, cfgVars, web3Vars, currentAddress, adminAddress, initRet, callVars>>

\* ApiService.setAdminAddress(address)
setAdminAddress(address) ==
  /\ pc \in {"Idle", "LedgerAttempt", "OffchainAttempt"}
  /\ adminAddress' = address
  /\ isAdminRet' = NotCalled
  /\ readRet' = NoRead
  /\ lastReq' = NoReq
  /\ click' = NoClick
  /\ UNCHANGED <<pageVars, cfgVars, web3Vars, currentAddress, initRet, callVars>>

\* ------------------------------------------------------------ connect step
\* variant: a missing provider also drops the signer and the contract
Web3Service_initialize_clearOnMissing(detect, grant, sgn) ==
  IF dummyMode
  THEN [ret |-> TRUE, provider |-> provider, signer |-> signer, contract |-> contract]
  ELSE IF detect = NULL
  THEN [ret |-> FALSE, provider |-> detect, signer |-> NULL, contract |-> NULL]
  ELSE IF grant = "rejected" \/ sgn = THROWN
  THEN [ret |-> FALSE, provider |-> detect, signer |-> signer, contract |-> contract]
  ELSE [ret |-> TRUE, provider |-> detect, signer |-> sgn, contract |-> CONTRACT]

\* variant: no dummy branch, the wallet is used whatever the toggle says
Web3Service_initialize_noDummy(detect, grant, sgn) ==
  IF detect = NULL
  THEN [ret |-> FALSE, provider |-> detect, signer |-> signer, contract |-> contract]
  ELSE IF grant = "rejected" \/ sgn = THROWN
  THEN [ret |-> FALSE, provider |-> detect, signer |-> signer, contract |-> contract]
  ELSE [ret |-> TRUE, provider |-> detect, signer |-> sgn, contract |-> CONTRACT]

\* Web3Service.initialize(): detect is what detectEthereumProvider() resolves
\* to, grant whether eth_requestAccounts is granted, sgn what getSigner()
\* yields (an account, or THROWN)
Web3Service_initialize(detect, grant, sgn) ==
  IF dummyMode
  THEN [ret |-> TRUE, provider |-> provider, signer |-> signer, contract |-> contract]
  ELSE IF detect = NULL
  THEN [ret |-> FALSE, provider |-> detect, signer |-> signer, contract |-> contract]
  ELSE IF grant = "rejected" \/ sgn = THROWN
  THEN [ret |-> FALSE, provider |-> detect, signer |-> signer, contract |-> contract]
  ELSE [ret |-> TRUE, provider |-> detect, signer |-> sgn, contract |-> CONTRACT]

\* web3Service.initialize() called directly by a page (schedule-elections,
\* manage-candidates)
web3Service_initialize(detect, grant, sgn) ==
  LET w == Web3Service_initialize(detect, grant, sgn) IN
  /\ pc \in {"Idle", "LedgerAttempt", "OffchainAttempt"}
  /\ provider' = w.provider
  /\ signer' = w.signer
  /\ contract' = w.contract
  /\ isAdminRet' = NotCalled
  /\ readRet' = NoRead
  /\ lastReq' = NoReq
  /\ click' = NoClick
  /\ UNCHANGED <<pageVars, cfgVars, currentAddress, adminAddress, initRet, callVars>>

\* what GET /health can do: answer that everything is up, answer that
\* something is down, answer with a body that has no services field, or fail
HealthAnswers == {"healthy", "unhealthy", "malformed", "failing"}

\* ApiService.healthCheck(): the response body, or the fixed error object
\* when the request fails; it never throws
ApiService_healthCheck(h) == IF h = "failing" THEN "unhealthy" ELSE h

\* variant: checkApiHealth lets a failed health check throw
checkApiHealth_rethrow(h) ==
  [threw |-> h \in {"malformed", "failing"}, value |-> h = "healthy"]

\* Web3IntegrationService.checkApiHealth(): true when the body reports
\* status ok and both services; reading a body without services throws
\* inside the try and is caught like any other failure
checkApiHealth(h) ==
  LET health == ApiService_healthCheck(h) IN
  [threw |-> FALSE, value |-> health # "malformed" /\ health = "healthy"]

\* Web3IntegrationService.initialize() as a function of what the wallet and
\* the health endpoint do: the value it returns and the fields it leaves
\* behind.  signer.getAddress() is the account the signer was created for;
\* the value of checkApiHealth() is dropped, and a throw from it would end
\* in the catch block (false) with currentAddress already written
Web3Integration_initialize(detect, grant, sgn, health) ==
  LET w == Web3Service_initialize(detect, grant, sgn) IN
  IF w.ret /\ w.signer # NULL
  THEN [ret |-> ~checkApiHealth(health).threw, provider |-> w.provider,
        signer |-> w.signer, contract |-> w.contract, currentAddress |-> w.signer]
  ELSE [ret |-> FALSE, provider |-> w.provider, signer |-> w.signer,
        contract |-> w.contract, currentAddress |-> currentAddress]

\* web3Integration.initialize()
initialize(detect, grant, sgn, health) ==
  LET i == Web3Integration_initialize(detect, grant, sgn, health) IN
  /\ pc \in {"Idle", "LedgerAttempt", "OffchainAttempt"}
  /\ provider' = i.provider
  /\ signer' = i.signer
  /\ contract' = i.contract
  /\ currentAddress' = i.currentAddress
  /\ initRet' = IF i.ret THEN "true" ELSE "false"
  /\ isAdminRet' = NotCalled
  /\ readRet' = NoRead
  /\ lastReq' = NoReq
  /\ click' = NoClick
  /\ UNCHANGED <<pageVars, cfgVars, adminAddress, callVars>>

\* ------------------------------------------------------------ ledger client
\* Web3Service.verifyUser / scheduleElection / addCandidate have the same
\* body but for the contract method called.  Up to the first await: dummy
\* mode returns true, a missing contract throws into the method's own catch
\* (false), otherwise the transaction is submitted.
Web3Service_verifyUser(userId) ==
  IF dummyMode THEN "true"
  ELSE IF contract = NULL THEN "false"
  ELSE "pending"

\* variant: the ledger client refuses a start time that is not before the end
Web3Service_scheduleElection_validating(startTime, endTime) ==
  IF startTime >= endTime THEN "false"
  ELSE IF dummyMode THEN "true"
  ELSE IF contract = NULL THEN "false"
  ELSE "pending"

Web3Service_scheduleElection(startTime, endTime) ==
  IF dummyMode THEN "true"
  ELSE IF contract = NULL THEN "false"
  ELSE "pending"

Web3Service_addCandidate(electionId) ==
  IF dummyMode THEN "true"
  ELSE IF contract = NULL THEN "false"
  ELSE "pending"

\* the value the ledger method resolves to: tx is the fate of a submitted
\* transaction (the contract call or tx.wait() throwing gives false)
Web3Service_settle(started, tx) ==
  IF started = "pending"
  THEN IF tx = "mined" THEN "true" ELSE "false"
  ELSE started

\* ---------------------------------------------------------- off-chain client
AdminNotSetVerify == "Admin address not set. Cannot verify voter."

VerifyRequest(v) ==
  [kind |-> "VERIFY_VOTER", header |-> adminAddress, cur |-> currentAddress,
   body |-> [adminAddress |-> adminAddress, voterAddress |-> v]]

\* ApiService.verifyVoter up to its await: throws before sending when no
\* admin address is set, otherwise posts the request.  sentBefore and
\* callsBefore are the invocation's requests and apiService calls so far.
ApiService_verifyVoter(v, sentBefore, callsBefore) ==
  /\ apiCalls' = callsBefore + 1
  /\ IF ~Truthy(adminAddress)
     THEN /\ apiState' = "threw"
          /\ apiMessage' = AdminNotSetVerify
          /\ sent' = sentBefore
          /\ lastReq' = NoReq
     ELSE /\ apiState' = "sent"
          /\ apiMessage' = ""
          /\ sent' = Append(sentBefore, [kind |-> "VERIFY_VOTER", header |-> adminAddress])
          /\ lastReq' = VerifyRequest(v)

\* ------------------------------------------------- coordinator: verifyVoter
\* variant: the off-chain call is started together with the ledger call
verifyVoter_call_concurrent(v, ans) ==
  /\ pc = "Idle"
  /\ op' = "verifyVoter"
  /\ args' = [voterAddress |-> v]
  /\ storeAnswer' = ans
  /\ result' = "none"
  /\ toast' = NoToast
  /\ IF contract # NULL
     THEN /\ pc' = "LedgerAttempt"
          /\ ledgerCalls' = 1
          /\ ledgerRes' = Web3Service_verifyUser(v)
          /\ ApiService_verifyVoter(v, <<>>, 0)
     ELSE /\ pc' = "OffchainAttempt"
          /\ ledgerCalls' = 0
          /\ ledgerRes' = "skipped"
          /\ ApiService_verifyVoter(v, <<>>, 0)
  /\ isAdminRet' = NotCalled
  /\ readRet' = NoRead
  /\ click' = NoClick
  /\ UNCHANGED <<pageVars, cfgVars, web3Vars, currentAddress, adminAddress, initRet>>

\* verifyVoter(voterAddress): entry up to the first await.  With a contract
\* the ledger call is started; without one the ledger step is skipped and
\* apiService.verifyVoter is called at once.
verifyVoter_call(v, ans) ==
  /\ pc = "Idle"
  /\ op' = "verifyVoter"
  /\ args' = [voterAddress |-> v]
  /\ storeAnswer' = ans
  /\ result' = "none"
  /\ toast' = NoToast
  /\ IF contract # NULL
     THEN /\ pc' = "LedgerAttempt"
          /\ ledgerCalls' = 1
          /\ ledgerRes' = Web3Service_verifyUser(v)
          /\ apiCalls' = 0
          /\ apiState' = "none"
          /\ apiMessage' = ""
          /\ sent' = <<>>
          /\ lastReq' = NoReq
     ELSE /\ pc' = "OffchainAttempt"
          /\ ledgerCalls' = 0
          /\ ledgerRes' = "skipped"
          /\ ApiService_verifyVoter(v, <<>>, 0)
  /\ isAdminRet' = NotCalled
  /\ readRet' = NoRead
  /\ click' = NoClick
  /\ UNCHANGED <<pageVars, cfgVars, web3Vars, currentAddress, adminAddress, initRet>>

\* variant: a failed ledger call ends the operation without the off-chain call
verifyVoter_ledgerDone_abort(tx) ==
  /\ op = "verifyVoter"
  /\ pc = "LedgerAttempt"
  /\ ledgerRes' = Web3Service_settle(ledgerRes, tx)
  /\ IF Web3Service_settle(ledgerRes, tx) = "true"
     THEN /\ pc' = "OffchainAttempt"
          /\ ApiService_verifyVoter(args.voterAddress, sent, apiCalls)
          /\ UNCHANGED <<result, toast>>
     ELSE /\ pc' = "Rejected"
          /\ result' = "false"
          /\ toast' = [kind |-> "error", text |-> "Failed to verify voter"]
          /\ lastReq' = NoReq
          /\ UNCHANGED <<apiCalls, apiState, apiMessage, sent>>
  /\ isAdminRet' = NotCalled
  /\ readRet' = NoRead
  /\ click' = NoClick
  /\ UNCHANGED <<pageVars, cfgVars, web3Vars, currentAddress, adminAddress, initRet,
                 op, args, storeAnswer, ledgerCalls>>

\* variant: a failed ledger call is tried once more
verifyVoter_ledgerDone_retry(tx) ==
  /\ op = "verifyVoter"
  /\ pc = "LedgerAttempt"
  /\ IF Web3Service_settle(ledgerRes, tx) = "false" /\ ledgerCalls < 2
     THEN /\ pc' = "LedgerAttempt"
          /\ ledgerCalls' = ledgerCalls + 1
          /\ ledgerRes' = Web3Service_verifyUser(args.voterAddress)
          /\ lastReq' = NoReq
          /\ UNCHANGED <<apiCalls, apiState, apiMessage, sent>>
     ELSE /\ pc' = "OffchainAttempt"
          /\ ledgerCalls' = ledgerCalls
          /\ ledgerRes' = Web3Service_settle(ledgerRes, tx)
          /\ ApiService_verifyVoter(args.voterAddress, sent, apiCalls)
  /\ isAdminRet' = NotCalled
  /\ readRet' = NoRead
  /\ click' = NoClick
  /\ UNCHANGED <<pageVars, cfgVars, web3Vars, currentAddress, adminAddress, initRet,
                 op, args, storeAnswer, result, toast>>

\* the await on web3Service.verifyUser settles (it never rejects: its own
\* catch turns a thrown transaction into false); verifyVoter goes on to the
\* off-chain call
verifyVoter_ledgerDone(tx) ==
  /\ op = "verifyVoter"
  /\ pc = "LedgerAttempt"
  /\ ledgerRes' = Web3Service_settle(ledgerRes, tx)
  /\ pc' = "OffchainAttempt"
  /\ ApiService_verifyVoter(args.voterAddress, sent, apiCalls)
  /\ isAdminRet' = NotCalled
  /\ readRet' = NoRead
  /\ click' = NoClick
  /\ UNCHANGED <<pageVars, cfgVars, web3Vars, currentAddress, adminAddress, initRet,
                 op, args, storeAnswer, ledgerCalls, result, toast>>

FailedToVerify == "Failed to verify voter"
ApiVerificationFailed == "API verification failed"

\* variant: the catch block reports success
verifyVoter_outcome_swallow(st, ans) ==
  IF st = "sent" /\ ans.kind = "ok"
  THEN IF ans.message # ""
       THEN [result |-> "true", pc |-> "Committed", apiState |-> "returned",
             toast |-> [kind |-> "success", text |-> ans.message]]
       ELSE [result |-> "false", pc |-> "Rejected", apiState |-> "returned",
             toast |-> [kind |-> "error", text |-> ApiVerificationFailed]]
  ELSE [result |-> "true", pc |-> "Committed", apiState |-> "failed",
        toast |-> [kind |-> "success", text |-> FailedToVerify]]

\* variant: the catch block shows the message of the error it caught
verifyVoter_outcome_verbatim(st, ans) ==
  IF st = "sent" /\ ans.kind = "ok"
  THEN IF ans.message # ""
       THEN [result |-> "true", pc |-> "Committed", apiState |-> "returned",
             toast |-> [kind |-> "success", text |-> ans.message]]
       ELSE [result |-> "false", pc |-> "Rejected", apiState |-> "returned",
             toast |-> [kind |-> "error", text |-> ApiVerificationFailed]]
  ELSE [result |-> "false", pc |-> "Rejected", apiState |-> "failed",
        toast |-> [kind |-> "error",
                   text |-> IF st = "sent" THEN ans.message ELSE AdminNotSetVerify]]

\* what verifyVoter does with the settled apiService.verifyVoter promise:
\* st is apiState, ans the store's answer to a request that was sent
verifyVoter_outcome(st, ans) ==
  IF st = "sent" /\ ans.kind = "ok"
  THEN IF ans.message # ""
       THEN [result |-> "true", pc |-> "Committed", apiState |-> "returned",
             toast |-> [kind |-> "success", text |-> ans.message]]
       ELSE [result |-> "false", pc |-> "Rejected", apiState |-> "returned",
             toast |-> [kind |-> "error", text |-> ApiVerificationFailed]]
  ELSE [result |-> "false", pc |-> "Rejected", apiState |-> "failed",
        toast |-> [kind |-> "error", text |-> FailedToVerify]]

\* the await on apiService.verifyVoter settles
verifyVoter_apiDone ==
  /\ op = "verifyVoter"
  /\ pc = "OffchainAttempt"
  /\ LET o == verifyVoter_outcome(apiState, storeAnswer) IN
     /\ result' = o.result
     /\ pc' = o.pc
     /\ apiState' = o.apiState
     /\ toast' = o.toast
  /\ apiMessage' = IF apiState = "sent" /\ storeAnswer.kind = "error"
                   THEN storeAnswer.message ELSE apiMessage
  /\ isAdminRet' = NotCalled
  /\ readRet' = NoRead
  /\ lastReq' = NoReq
  /\ click' = NoClick
  /\ UNCHANGED <<pageVars, cfgVars, web3Vars, currentAddress, adminAddress, initRet,
                 op, args, storeAnswer, ledgerCalls, ledgerRes, apiCalls, sent>>

\* ----------------------------------------------- coordinator: registerVoter
WalletNotConnected == "Wallet not connected"
RegisteredOnBoth == "Voter registered successfully on blockchain and database"
RegisteredOffchainOnly ==
  "Voter registered in database but not on blockchain. Please try again later."
FailedToRegister == "Failed to register voter"

\* answers of the off-chain store to POST /voters/register: 2xx with the
\* onBlockchain flag of the response, or an error
RegisterAnswers ==
  [kind : {"ok"}, message : {""}, onBlockchain : BOOLEAN]
    \cup [kind : {"error"}, message : {""}, onBlockchain : {FALSE}]

\* registerVoter(data): without a current address it returns false at once;
\* otherwise apiService.registerVoter posts the data with address =
\* currentAddress (not an administrative request: no x-admin-address header)
registerVoter_call(ans) ==
  /\ pc = "Idle"
  /\ op' = "registerVoter"
  /\ args' = [address |-> currentAddress]
  /\ ledgerCalls' = 0
  /\ ledgerRes' = "none"
  /\ apiMessage' = ""
  /\ IF ~Truthy(currentAddress)
     THEN /\ pc' = "Rejected"
          /\ storeAnswer' = NoAnswer
          /\ apiCalls' = 0
          /\ apiState' = "none"
          /\ sent' = <<>>
          /\ result' = "false"
          /\ toast' = [kind |-> "error", text |-> WalletNotConnected]
     ELSE /\ pc' = "OffchainAttempt"
          /\ storeAnswer' = ans
          /\ apiCalls' = 1
          /\ apiState' = "sent"
          /\ sent' = <<[kind |-> "REGISTER_VOTER", header |-> NULL]>>
          /\ result' = "none"
          /\ toast' = NoToast
  /\ isAdminRet' = NotCalled
  /\ readRet' = NoRead
  /\ lastReq' = NoReq
  /\ click' = NoClick
  /\ UNCHANGED <<pageVars, cfgVars, web3Vars, currentAddress, adminAddress, initRet>>

\* variant: the error of a failed registration is thrown on to the caller
registerVoter_outcome_rethrow(ans) ==
  IF ans.kind = "ok"
  THEN IF ans.onBlockchain
       THEN [result |-> "true", pc |-> "Committed", apiState |-> "returned",
             toast |-> [kind |-> "success", text |-> RegisteredOnBoth]]
       ELSE [result |-> "false", pc |-> "Rejected", apiState |-> "returned",
             toast |-> [kind |-> "error", text |-> RegisteredOffchainOnly]]
  ELSE [result |-> "threw", pc |-> "Rejected", apiState |-> "failed",
        toast |-> [kind |-> "error", text |-> FailedToRegister]]

\* variant: any 2xx answer counts as a successful registration
registerVoter_outcome_anyOk(ans) ==
  IF ans.kind = "ok"
  THEN [result |-> "true", pc |-> "Committed", apiState |-> "returned",
        toast |-> [kind |-> "success", text |-> RegisteredOnBoth]]
  ELSE [result |-> "false", pc |-> "Rejected", apiState |-> "failed",
        toast |-> [kind |-> "error", text |-> FailedToRegister]]

\* what registerVoter does with the settled apiService.registerVoter promise
registerVoter_outcome(ans) ==
  IF ans.kind = "ok"
  THEN IF ans.onBlockchain
       THEN [result |-> "true", pc |-> "Committed", apiState |-> "returned",
             toast |-> [kind |-> "success", text |-> RegisteredOnBoth]]
       ELSE [result |-> "false", pc |-> "Rejected", apiState |-> "returned",
             toast |-> [kind |-> "error", text |-> RegisteredOffchainOnly]]
  ELSE [result |-> "false", pc |-> "Rejected", apiState |-> "failed",
        toast |-> [kind |-> "error", text |-> FailedToRegister]]

\* the await on apiService.registerVoter settles; on any failure the
\* off-chain client throws new Error('Failed to register voter')
registerVoter_apiDone ==
  /\ op = "registerVoter"
  /\ pc = "OffchainAttempt"
  /\ LET o == registerVoter_outcome(storeAnswer) IN
     /\ result' = o.result
     /\ pc' = o.pc
     /\ apiState' = o.apiState
     /\ toast' = o.toast
  /\ apiMessage' = IF storeAnswer.kind = "error" THEN FailedToRegister ELSE apiMessage
  /\ isAdminRet' = NotCalled
  /\ readRet' = NoRead
  /\ lastReq' = NoReq
  /\ click' = NoClick
  /\ UNCHANGED <<pageVars, cfgVars, web3Vars, currentAddress, adminAddress, initRet,
                 op, args, storeAnswer, ledgerCalls, ledgerRes, apiCalls, sent>>

\* ----------------------------- coordinator: scheduleElection, addCandidate
ElectionScheduled == "Election scheduled successfully"
FailedToSchedule == "Failed to schedule election"
CandidateAdded == "Candidate added successfully"
FailedToAdd == "Failed to add candidate"

Times == {1, 2}
ElectionIds == {1, 2}

LedgerOnly_call(o, a, started) ==
  /\ pc = "Idle"
  /\ op' = o
  /\ args' = a
  /\ storeAnswer' = NoAnswer
  /\ result' = "none"
  /\ toast' = NoToast
  /\ pc' = "LedgerAttempt"
  /\ ledgerCalls' = 1
  /\ ledgerRes' = started
  /\ apiCalls' = 0
  /\ apiState' = "none"
  /\ apiMessage' = ""
  /\ sent' = <<>>
  /\ isAdminRet' = NotCalled
  /\ readRet' = NoRead
  /\ lastReq' = NoReq
  /\ click' = NoClick
  /\ UNCHANGED <<pageVars, cfgVars, web3Vars, currentAddress, adminAddress, initRet>>

\* variant: the ledger result is ignored and success reported
LedgerOnly_done_ignoreLedger(r, okText, failText) ==
  /\ ledgerRes' = r
  /\ result' = "true"
  /\ pc' = "Committed"
  /\ toast' = [kind |-> "success", text |-> okText]
  /\ isAdminRet' = NotCalled
  /\ readRet' = NoRead
  /\ lastReq' = NoReq
  /\ click' = NoClick
  /\ UNCHANGED <<pageVars, cfgVars, web3Vars, currentAddress, adminAddress, initRet,
                 op, args, storeAnswer, ledgerCalls, apiCalls, apiState,
                 apiMessage, sent>>

LedgerOnly_done(r, okText, failText) ==
  /\ ledgerRes' = r
  /\ result' = IF r = "true" THEN "true" ELSE "false"
  /\ pc' = IF r = "true" THEN "Committed" ELSE "Rejected"
  /\ toast' = IF r = "true" THEN [kind |-> "success", text |-> okText]
                            ELSE [kind |-> "error", text |-> failText]
  /\ isAdminRet' = NotCalled
  /\ readRet' = NoRead
  /\ lastReq' = NoReq
  /\ click' = NoClick
  /\ UNCHANGED <<pageVars, cfgVars, web3Vars, currentAddress, adminAddress, initRet,
                 op, args, storeAnswer, ledgerCalls, apiCalls, apiState,
                 apiMessage, sent>>

\* scheduleElection(name, startTime, endTime)
scheduleElection_call(startTime, endTime) ==
  LedgerOnly_call("scheduleElection", [startTime |-> startTime, endTime |-> endTime],
                  Web3Service_scheduleElection(startTime, endTime))

scheduleElection_ledgerDone(tx) ==
  /\ op = "scheduleElection"
  /\ pc = "LedgerAttempt"
  /\ LedgerOnly_done(Web3Service_settle(ledgerRes, tx), ElectionScheduled, FailedToSchedule)

\* addCandidate(electionId, name, info)
addCandidate_call(electionId) ==
  LedgerOnly_call("addCandidate", [electionId |-> electionId],
                  Web3Service_addCandidate(electionId))

addCandidate_ledgerDone(tx) ==
  /\ op = "addCandidate"
  /\ pc = "LedgerAttempt"
  /\ LedgerOnly_done(Web3Service_settle(ledgerRes, tx), CandidateAdded, FailedToAdd)

\* the caller's await on the coordinator's promise resumes with the result
\* (a microtask: nothing else runs between the resolution and this step)
return ==
  /\ pc \in {"Committed", "Rejected"}
  /\ op' = "none"
  /\ pc' = "Idle"
  /\ args' = NoArgs
  /\ storeAnswer' = NoAnswer
  /\ ledgerCalls' = 0
  /\ ledgerRes' = "none"
  /\ apiCalls' = 0
  /\ apiState' = "none"
  /\ apiMessage' = ""
  /\ sent' = <<>>
  /\ result' = "none"
  /\ toast' = NoToast
  /\ isAdminRet' = NotCalled
  /\ readRet' = NoRead
  /\ lastReq' = NoReq
  /\ click' = NoClick
  /\ UNCHANGED <<pageVars, cfgVars, web3Vars, currentAddress, adminAddress, initRet>>

\* ------------------------------------------------------ coordinator: reads
CoordinatorReads == {"getAdminStats", "listVoters", "getAdminLogs"}

FailedToList == "Failed to list voters"
FailedToGetStats == "Failed to get admin statistics"
FailedToGetLogs == "Failed to get admin logs"

\* variant: a failed read resolves to an empty result
Read_outcome_swallow(failed) == IF failed THEN "empty" ELSE "returned"

\* how a coordinator read settles when its apiService call threw (failed)
\* or returned: apiService rethrows what it caught, the coordinator toasts
\* and rethrows; otherwise the response data goes back to the caller
Read_outcome(failed) == IF failed THEN "threw" ELSE "returned"

ReadResult(o, failed, failText) ==
  [op |-> o, failed |-> failed, outcome |-> Read_outcome(failed),
   toast |-> IF failed THEN failText ELSE ""]

\* the request ApiService.listVoters sends: header adminAddress || ''
ListVotersRequest ==
  [kind |-> "LIST_VOTERS",
   header |-> IF Truthy(adminAddress) THEN adminAddress ELSE EMPTY,
   cur |-> currentAddress, body |-> NULL]

\* the request ApiService.getAdminStats / getAdminLogs sends
AdminReadRequest(kind) ==
  [kind |-> kind, header |-> adminAddress, cur |-> currentAddress, body |-> NULL]

\* listVoters(options) -> ApiService.listVoters: always sends
listVoters(ans) ==
  /\ pc = "Idle"
  /\ lastReq' = ListVotersRequest
  /\ readRet' = ReadResult("listVoters", ans.kind = "error", FailedToList)
  /\ isAdminRet' = NotCalled
  /\ click' = NoClick
  /\ UNCHANGED <<pageVars, cfgVars, web3Vars, currentAddress, adminAddress, initRet, callVars>>

\* variant: a read that failed falls back to the ledger client
GuardedRead_ledgerFallback(o, kind, failText, ans) ==
  /\ pc = "Idle"
  /\ IF ~Truthy(adminAddress)
     THEN /\ readRet' = ReadResult(o, TRUE, failText)
          /\ lastReq' = NoReq
          /\ ledgerCalls' = 1
     ELSE /\ lastReq' = AdminReadRequest(kind)
          /\ readRet' = ReadResult(o, ans.kind = "error", failText)
          /\ ledgerCalls' = IF ans.kind = "error" THEN 1 ELSE ledgerCalls
  /\ isAdminRet' = NotCalled
  /\ click' = NoClick
  /\ UNCHANGED <<pageVars, cfgVars, web3Vars, currentAddress, adminAddress, initRet,
                 op, pc, args, storeAnswer, ledgerRes, apiCalls, apiState,
                 apiMessage, sent, result, toast>>

\* getAdminStats() / getAdminLogs(options) -> ApiService.getAdminStats /
\* getAdminLogs: throw before sending when no admin address is set
GuardedRead(o, kind, failText, ans) ==
  /\ pc = "Idle"
  /\ IF ~Truthy(adminAddress)
     THEN /\ readRet' = ReadResult(o, TRUE, failText)
          /\ lastReq' = NoReq
     ELSE /\ lastReq' = AdminReadRequest(kind)
          /\ readRet' = ReadResult(o, ans.kind = "error", failText)
  /\ isAdminRet' = NotCalled
  /\ click' = NoClick
  /\ UNCHANGED <<pageVars, cfgVars, web3Vars, currentAddress, adminAddress, initRet, callVars>>

getAdminStats(ans) == GuardedRead("getAdminStats", "ADMIN_STATS", FailedToGetStats, ans)

getAdminLogs(ans) == GuardedRead("getAdminLogs", "ADMIN_LOGS", FailedToGetLogs, ans)

\* ------------------------------------------------------ ledger client: reads
\* Web3Service.getElections / getCandidates: the built-in list, or [] when
\* the missing contract throws into the method's own catch
Web3Service_getElections ==
  IF dummyMode THEN "mock"
  ELSE IF contract = NULL THEN "empty"
  ELSE "mock"

Web3Service_getCandidates(electionId) ==
  IF dummyMode THEN "mock"
  ELSE IF contract = NULL THEN "empty"
  ELSE "mock"

LedgerRead(o, got) ==
  /\ pc = "Idle"
  /\ readRet' = [op |-> o, failed |-> got = "empty", outcome |-> got, toast |-> ""]
  /\ lastReq' = NoReq
  /\ isAdminRet' = NotCalled
  /\ click' = NoClick
  /\ UNCHANGED <<pageVars, cfgVars, web3Vars, currentAddress, adminAddress, initRet, callVars>>

\* getElections(): the coordinator forwards to web3Service.getElections()
getElections == LedgerRead("getElections", Web3Service_getElections)

\* getCandidates(electionId): the coordinator forwards to web3Service.getCandidates()
getCandidates(electionId) == LedgerRead("getCandidates", Web3Service_getCandidates(electionId))

Voters == Accounts
Detected == {NULL, ETHEREUM}
Grants == {"granted", "rejected"}
SignerOutcomes == Accounts \cup {THROWN}

Next ==
  \/ isAdmin
  \/ \E a \in Accounts : setAdminAddress(a)
  \/ \E d \in Detected, g \in Grants, s \in SignerOutcomes, h \in HealthAnswers :
       initialize(d, g, s, h)
  \/ \E d \in Detected, g \in Grants, s \in SignerOutcomes : web3Service_initialize(d, g, s)
  \/ \E v \in Voters, ans \in StoreAnswers : verifyVoter_call(v, ans)
  \/ \E tx \in TxOutcomes : verifyVoter_ledgerDone(tx)
  \/ verifyVoter_apiDone
  \/ \E ans \in RegisterAnswers : registerVoter_call(ans)
  \/ registerVoter_apiDone
  \/ \E s \in Times, e \in Times : scheduleElection_call(s, e)
  \/ \E tx \in TxOutcomes : scheduleElection_ledgerDone(tx)
  \/ \E id \in ElectionIds : addCandidate_call(id)
  \/ \E tx \in TxOutcomes : addCandidate_ledgerDone(tx)
  \/ return
  \/ \E ans \in StoreAnswers : listVoters(ans)
  \/ \E ans \in StoreAnswers : getAdminStats(ans)
  \/ \E ans \in StoreAnswers : getAdminLogs(ans)
  \/ getElections
  \/ \E id \in ElectionIds : getCandidates(id)

Spec == Init /\ [][Next]_vars

\* ============================================================= admin pages
\* The pages under app/admin.  Each coordinator page's mount effect starts a
\* timer whose callback runs the page's initWeb3: the connect step, then the
\* page's data load.  Nothing clears a timer or cancels a connect call when
\* the page is left, so timers and calls of pages left behind stay pending
\* (live = FALSE) and still act on the singletons; their setState calls go to
\* an unmounted component and change nothing.
CoordinatorPages == {"dashboard", "stats", "logs", "verify-users", "settings"}
ReadViews == {"dashboard", "stats", "logs", "verify-users"}
Pages == CoordinatorPages \cup {"schedule-elections"}

\* pages whose list is requested from the store page by page
ListPages == {"logs", "verify-users"}

\* bound on the timers and connect calls pending at the same time
MaxPending == 2

\* bound on the list requests and search timers pending at the same time
MaxLoads == 1

\* bound on the number of pages the store reports for a list
MaxPages == 2

Stale(seq) == [i \in 1..Len(seq) |-> [seq[i] EXCEPT !.live = FALSE]]

Without(seq, i) == SubSeq(seq, 1, i - 1) \o SubSeq(seq, i + 1, Len(seq))

\* options of the logs page's two selects ('' is All Actions / All Statuses)
LogActions == {"", "VERIFY_VOTER"}
LogStatuses == {"", "SUCCESS"}

\* answers of the store to a list request: a page of the list with the
\* number of pages, or an error
ListAnswers == [kind : {"ok"}, pages : 1..MaxPages] \cup [kind : {"error"}, pages : {1}]

\* the options of a list request: page number and filters (limit is 10)
Query(page, actionFilter, statusFilter) ==
  [page |-> page, action |-> actionFilter, status |-> statusFilter]

\* schedule-elections page, loadElections: got is what
\* web3Service.getElections() resolves to (it waits for nothing)
loadElections(got) ==
  [load |-> IF got = "mock" THEN "loaded" ELSE "empty",
   loading |-> FALSE, lastReq |-> NoReq,
   readRet |-> [op |-> "getElections", failed |-> got = "empty",
                outcome |-> got, toast |-> ""]]

\* logs page, loadLogs(page, actionFilter, statusFilter) up to its await:
\* apiService.getAdminLogs throws before sending when no admin address is
\* set, and the catch and finally blocks run at once; otherwise the request
\* goes out
loadLogs(page, actionFilter, statusFilter) ==
  IF ~Truthy(adminAddress)
  THEN [load |-> "failed", loading |-> FALSE, lastReq |-> NoReq,
        readRet |-> [op |-> "apiService.getAdminLogs", failed |-> TRUE,
                     outcome |-> "threw", toast |-> ""],
        inflight |-> inflight, pagination |-> FirstPage, shown |-> NoQuery]
  ELSE [load |-> "pending", loading |-> TRUE,
        lastReq |-> [AdminReadRequest("ADMIN_LOGS") EXCEPT
                       !.body = Query(page, actionFilter, statusFilter)],
        readRet |-> NoRead,
        inflight |-> Append(inflight, Query(page, actionFilter, statusFilter)),
        pagination |-> pagination, shown |-> shown]

\* verify-users page, loadUsers up to its await: listVoters is called with
\* the currentPage of the closure (page), limit 10 and verified false, and
\* always sends; loading is not touched (loadUsers sets isLoading, which
\* nothing reads)
loadUsers(page) ==
  [load |-> "pending", loading |-> loading,
   lastReq |-> [ListVotersRequest EXCEPT
                  !.body = [page |-> page, limit |-> 10, verified |-> FALSE]],
   readRet |-> NoRead,
   inflight |-> Append(inflight, Query(page, "", "")),
   pagination |-> pagination, shown |-> shown]

\* what the data load of f's page does up to its first await, once the
\* connect step has returned true.  initWeb3 of the logs page calls
\* loadLogs(1) of the first render, whose default filters are ''
LoadStart(f) ==
  CASE f.page = "stats" ->
         IF ~Truthy(adminAddress)
         THEN [load |-> "failed", loading |-> FALSE, lastReq |-> NoReq,
               readRet |-> ReadResult("getAdminStats", TRUE, FailedToGetStats)]
         ELSE [load |-> "pending", loading |-> TRUE,
               lastReq |-> AdminReadRequest("ADMIN_STATS"), readRet |-> NoRead]
    [] f.page = "logs" -> loadLogs(1, "", "")
    [] f.page = "verify-users" -> loadUsers(IF f.live THEN currentPage ELSE 1)
    [] f.page = "dashboard" ->
         [load |-> "pending", loading |-> loading,
          lastReq |-> ListVotersRequest, readRet |-> NoRead]
    [] f.page = "settings" ->
         IF f.by = "effect"
         THEN [load |-> "pending", loading |-> loading, lastReq |-> NoReq,
               readRet |-> NoRead]
         ELSE [load |-> load, loading |-> FALSE, lastReq |-> NoReq, readRet |-> NoRead]
    [] f.page = "schedule-elections" -> loadElections(Web3Service_getElections)

\* initWeb3 / reconnectWallet after the await on initialize(): connected is
\* the value it resolved to.  Used in steps that leave currentAddress as it
\* is, so isAdmin() sees the current state.
AfterConnect(f, connected, reason) ==
  /\ initRet' = IF f.page \in CoordinatorPages
                THEN IF connected THEN "true" ELSE "false"
                ELSE initRet
  /\ click' = NoClick
  /\ IF connected
     THEN /\ lastReq' = LoadStart(f).lastReq
          /\ readRet' = LoadStart(f).readRet
          /\ isAdminRet' = IF f.page \in CoordinatorPages
                           THEN [called |-> TRUE, cur |-> currentAddress, ret |-> isUserAdmin]
                           ELSE NotCalled
          /\ IF f.live
             THEN /\ isConnected' = TRUE
                  /\ pageIsAdmin' = (f.page \in CoordinatorPages /\ isUserAdmin)
                  /\ load' = LoadStart(f).load
                  /\ loading' = LoadStart(f).loading
                  /\ why' = "none"
                  /\ IF f.page \in ListPages
                     THEN /\ inflight' = LoadStart(f).inflight
                          /\ pagination' = LoadStart(f).pagination
                          /\ shown' = LoadStart(f).shown
                     ELSE UNCHANGED <<inflight, pagination, shown>>
             ELSE UNCHANGED <<isConnected, pageIsAdmin, load, loading, why,
                              inflight, pagination, shown>>
     ELSE /\ lastReq' = NoReq
          /\ readRet' = NoRead
          /\ isAdminRet' = NotCalled
          /\ UNCHANGED <<inflight, pagination, shown>>
          /\ IF f.live
             THEN /\ isConnected' = FALSE
                  /\ loading' = FALSE
                  /\ why' = reason
                  /\ UNCHANGED <<pageIsAdmin, load>>
             ELSE UNCHANGED <<isConnected, pageIsAdmin, load, loading, why>>
  /\ UNCHANGED <<action, status, currentPage, searches, selectedElectionId,
                 candidates, candTx>>

\* a call of initialize() by flow f: in dummy mode web3Service.initialize()
\* resolves without waiting for anything (true; the coordinator then finds no
\* signer and returns false), otherwise the call waits for
\* detectEthereumProvider()
StartConnect(f, others) ==
  IF dummyMode
  THEN /\ AfterConnect(f, f.page \notin CoordinatorPages, "no-signer")
       /\ flows' = others
  ELSE /\ flows' = Append(others, f)
       /\ isAdminRet' = NotCalled
       /\ readRet' = NoRead
       /\ lastReq' = NoReq
       /\ click' = NoClick
       /\ loading' = IF f.by = "reconnect" THEN TRUE ELSE loading
       /\ UNCHANGED <<initRet, isConnected, pageIsAdmin, load, why, viewVars>>

\* navigation to page p: the page shown is unmounted, p is mounted with its
\* initial React state and its effect calls setTimeout(initWeb3, 800).
\* Responses and search timers of the page left behind only call setState
\* on the unmounted component and are dropped
mount(p) ==
  /\ p # mounted
  /\ Len(timers) + Len(flows) < MaxPending
  /\ mounted' = p
  /\ timers' = Append(Stale(timers), [page |-> p, live |-> TRUE])
  /\ flows' = Stale(flows)
  /\ isConnected' = FALSE
  /\ loading' = TRUE
  /\ pageIsAdmin' = FALSE
  /\ load' = "none"
  /\ why' = "none"
  /\ submitting' = FALSE
  /\ pageTx' = [pageTx EXCEPT !.live = FALSE]
  /\ click' = NoClick
  /\ inflight' = <<>>
  /\ action' = ""
  /\ status' = ""
  /\ currentPage' = 1
  /\ pagination' = FirstPage
  /\ shown' = NoQuery
  /\ searches' = 0
  /\ selectedElectionId' = 0
  /\ candidates' = NoCandidates
  /\ candTx' = NoCandTx
  /\ isAdminRet' = NotCalled
  /\ readRet' = NoRead
  /\ lastReq' = NoReq
  /\ UNCHANGED <<cfgVars, web3Vars, currentAddress, adminAddress, initRet, callVars>>

\* the oldest timer fires: initWeb3 calls initialize()
initWeb3 ==
  /\ timers # <<>>
  /\ timers' = Tail(timers)
  /\ StartConnect([page |-> Head(timers).page, live |-> Head(timers).live,
                   by |-> "effect", phase |-> "detect"], flows)
  /\ UNCHANGED <<cfgVars, web3Vars, currentAddress, adminAddress, callVars,
                 mounted, submitting, pageTx>>

\* settings page, Reconnect Wallet button (rendered when loading is false)
reconnectWallet ==
  /\ mounted = "settings"
  /\ ~loading
  /\ Len(timers) + Len(flows) < MaxPending
  /\ StartConnect([page |-> "settings", live |-> TRUE, by |-> "reconnect",
                   phase |-> "detect"], flows)
  /\ UNCHANGED <<cfgVars, web3Vars, currentAddress, adminAddress, callVars,
                 mounted, timers, submitting, pageTx>>

\* Web3Service.initialize: detectEthereumProvider() resolves to d
detectEthereumProvider_settles(i, d) ==
  /\ i \in 1..Len(flows)
  /\ flows[i].phase = "detect"
  /\ provider' = d
  /\ IF d = NULL
     THEN /\ flows' = Without(flows, i)
          /\ AfterConnect(flows[i], FALSE, "no-provider")
     ELSE /\ flows' = [flows EXCEPT ![i].phase = "request"]
          /\ isAdminRet' = NotCalled
          /\ readRet' = NoRead
          /\ lastReq' = NoReq
          /\ click' = NoClick
          /\ UNCHANGED <<initRet, isConnected, pageIsAdmin, load, loading, why, viewVars>>
  /\ UNCHANGED <<cfgVars, signer, contract, currentAddress, adminAddress, callVars,
                 mounted, timers, submitting, pageTx>>

\* manage-candidates page: loadCandidates(electionId) with what
\* web3Service.getCandidates resolves to (it waits for nothing): the list
\* carries the election it was asked for, the empty list does not
loadCandidates(electionId, got) ==
  IF got = "mock" THEN [of |-> electionId, got |-> "mock"] ELSE [of |-> 0, got |-> "empty"]

\* Web3Service.initialize: eth_requestAccounts and getSigner() settle.  A
\* refusal or a throw ends the call with false.  Otherwise signer and
\* contract are set; web3Service.initialize() called by the
\* schedule-elections or manage-candidates page returns true and the page
\* loads the elections (the contract exists now, so the built-in list comes
\* back), manage-candidates then selects the first election and loads its
\* candidates; the coordinator's initialize() stores the signer's address
\* and waits for checkApiHealth()
getSigner_settles(i, grant, sgn) ==
  /\ i \in 1..Len(flows)
  /\ flows[i].phase = "request"
  /\ click' = NoClick
  /\ IF grant = "rejected" \/ sgn = THROWN
     THEN /\ flows' = Without(flows, i)
          /\ AfterConnect(flows[i], FALSE, "rejected")
          /\ UNCHANGED <<signer, contract, currentAddress>>
     ELSE /\ signer' = sgn
          /\ contract' = CONTRACT
          /\ UNCHANGED <<inflight, action, status, currentPage, pagination, shown,
                         searches, candTx>>
          /\ IF flows[i].page \in CoordinatorPages
             THEN /\ currentAddress' = sgn
                  /\ flows' = [flows EXCEPT ![i].phase = "health"]
                  /\ isAdminRet' = NotCalled
                  /\ readRet' = NoRead
                  /\ lastReq' = NoReq
                  /\ UNCHANGED <<initRet, isConnected, pageIsAdmin, load, loading, why,
                                 selectedElectionId, candidates>>
             ELSE /\ flows' = Without(flows, i)
                  /\ lastReq' = NoReq
                  /\ readRet' = loadElections("mock").readRet
                  /\ isAdminRet' = NotCalled
                  /\ IF flows[i].live
                     THEN /\ isConnected' = TRUE
                          /\ pageIsAdmin' = FALSE
                          /\ load' = loadElections("mock").load
                          /\ loading' = loadElections("mock").loading
                          /\ why' = "none"
                          /\ IF flows[i].page = "manage-candidates"
                             THEN /\ selectedElectionId' = 1
                                  /\ candidates' = loadCandidates(1, "mock")
                             ELSE UNCHANGED <<selectedElectionId, candidates>>
                     ELSE UNCHANGED <<isConnected, pageIsAdmin, load, loading, why,
                                      selectedElectionId, candidates>>
                  /\ UNCHANGED <<currentAddress, initRet>>
  /\ UNCHANGED <<cfgVars, provider, adminAddress, callVars,
                 mounted, timers, submitting, pageTx>>

\* Web3IntegrationService.initialize: checkApiHealth() settles with the
\* health endpoint's answer h; its value is dropped and initialize() returns
\* true unless it threw
checkApiHealth_settles(i, h) ==
  /\ i \in 1..Len(flows)
  /\ flows[i].phase = "health"
  /\ flows' = Without(flows, i)
  /\ AfterConnect(flows[i], ~checkApiHealth(h).threw, "health")
  /\ UNCHANGED <<cfgVars, web3Vars, currentAddress, adminAddress, callVars,
                 mounted, timers, submitting, pageTx>>

\* the request of the data load of the mounted dashboard, stats or settings
\* page settles
load_settles(ans) ==
  /\ load = "pending"
  /\ mounted \notin ListPages
  /\ load' = IF ans.kind = "ok" THEN "loaded" ELSE "failed"
  /\ loading' = CASE mounted = "dashboard" -> IF ans.kind = "ok" THEN FALSE ELSE loading
                  [] OTHER -> FALSE
  /\ readRet' = CASE mounted = "dashboard" ->
                       ReadResult("listVoters", ans.kind = "error", FailedToList)
                  [] mounted = "stats" ->
                       ReadResult("getAdminStats", ans.kind = "error", FailedToGetStats)
                  [] OTHER -> NoRead
  /\ isAdminRet' = NotCalled
  /\ lastReq' = NoReq
  /\ click' = NoClick
  /\ UNCHANGED <<cfgVars, web3Vars, currentAddress, adminAddress, initRet, callVars,
                 mounted, timers, flows, isConnected, pageIsAdmin, why, submitting,
                 pageTx, viewVars>>

\* the i-th pending list request of the mounted logs or verify-users page
\* settles with the store's answer; the store reports the page it served,
\* the requested one unless that lies beyond the last.
\* logs: loadLogs after its await (the lists and pagination are replaced,
\* currentPage becomes the requested page; on failure the list is emptied
\* and pagination reset) and setLoading(false).
\* verify-users: loadUsers after its await; loading is not touched; a
\* changed currentPage gives loadUsers a new identity, which re-runs the
\* mount effect and sets a new initWeb3 timer
list_settles(i, ans) ==
  /\ mounted \in ListPages
  /\ i \in 1..Len(inflight)
  /\ inflight' = Without(inflight, i)
  /\ load' = IF ans.kind = "ok" THEN "loaded" ELSE "failed"
  /\ IF mounted = "logs"
     THEN /\ loading' = FALSE
          /\ shown' = IF ans.kind = "ok" THEN inflight[i] ELSE NoQuery
          /\ pagination' = IF ans.kind = "ok"
                           THEN [page |-> Min(inflight[i].page, ans.pages),
                                 pages |-> ans.pages]
                           ELSE FirstPage
          /\ currentPage' = IF ans.kind = "ok" THEN inflight[i].page ELSE currentPage
          /\ readRet' = [op |-> "apiService.getAdminLogs", failed |-> ans.kind = "error",
                         outcome |-> Read_outcome(ans.kind = "error"), toast |-> ""]
          /\ timers' = timers
     ELSE /\ loading' = loading
          /\ shown' = IF ans.kind = "ok" THEN inflight[i] ELSE shown
          /\ pagination' = IF ans.kind = "ok"
                           THEN [page |-> Min(inflight[i].page, ans.pages),
                                 pages |-> ans.pages]
                           ELSE pagination
          /\ currentPage' = IF ans.kind = "ok"
                            THEN Min(inflight[i].page, ans.pages)
                            ELSE currentPage
          /\ readRet' = ReadResult("listVoters", ans.kind = "error", FailedToList)
          /\ timers' = IF ans.kind = "ok" /\ Min(inflight[i].page, ans.pages) # currentPage
                       THEN Append(timers, [page |-> mounted, live |-> TRUE])
                       ELSE timers
  /\ isAdminRet' = NotCalled
  /\ lastReq' = NoReq
  /\ click' = NoClick
  /\ UNCHANGED <<cfgVars, web3Vars, currentAddress, adminAddress, initRet, callVars,
                 mounted, flows, isConnected, pageIsAdmin, why, submitting, pageTx,
                 action, status, searches, selectedElectionId, candidates, candTx>>

\* schedule-elections page: the form is rendered unless loading with no
\* elections, and its fields and button are disabled by !isConnected ||
\* submitting
ScheduleFormEnabled ==
  /\ mounted = "schedule-elections"
  /\ ~(loading /\ load # "loaded")
  /\ isConnected
  /\ ~submitting

\* schedule-elections page, onSubmit: web3Service.scheduleElection is called
\* with the form's timestamps.  When it resolves at once (dummy mode, no
\* contract) the rest of onSubmit runs in the same step.  One transaction
\* of the page is followed at a time.
onSubmit(startTime, endTime) ==
  /\ ScheduleFormEnabled
  /\ pageTx.state = "none"
  /\ IF Web3Service_scheduleElection(startTime, endTime) = "pending"
     THEN /\ submitting' = TRUE
          /\ pageTx' = [state |-> "pending", live |-> TRUE]
          /\ readRet' = NoRead
          /\ UNCHANGED <<load, loading>>
     ELSE /\ submitting' = FALSE
          /\ pageTx' = pageTx
          /\ IF Web3Service_scheduleElection(startTime, endTime) = "true"
             THEN /\ load' = loadElections(Web3Service_getElections).load
                  /\ loading' = FALSE
                  /\ readRet' = loadElections(Web3Service_getElections).readRet
             ELSE /\ readRet' = NoRead
                  /\ UNCHANGED <<load, loading>>
  /\ isAdminRet' = NotCalled
  /\ lastReq' = NoReq
  /\ click' = [handler |-> "onSubmit", page |-> 0]
  /\ UNCHANGED <<cfgVars, web3Vars, currentAddress, adminAddress, initRet, callVars,
                 mounted, timers, flows, isConnected, pageIsAdmin, why, viewVars>>

\* the transaction of onSubmit is mined or throws; on true the page reloads
\* the elections, and in any case clears submitting
onSubmit_settles(tx) ==
  /\ pageTx.state = "pending"
  /\ pageTx' = NoTx
  /\ IF pageTx.live
     THEN /\ submitting' = FALSE
          /\ IF Web3Service_settle("pending", tx) = "true"
             THEN /\ load' = loadElections(Web3Service_getElections).load
                  /\ loading' = FALSE
             ELSE UNCHANGED <<load, loading>>
     ELSE UNCHANGED <<submitting, load, loading>>
  /\ readRet' = IF Web3Service_settle("pending", tx) = "true"
                THEN loadElections(Web3Service_getElections).readRet
                ELSE NoRead
  /\ isAdminRet' = NotCalled
  /\ lastReq' = NoReq
  /\ click' = NoClick
  /\ UNCHANGED <<cfgVars, web3Vars, currentAddress, adminAddress, initRet, callVars,
                 mounted, timers, flows, isConnected, pageIsAdmin, why, viewVars>>

PageNext ==
  \/ \E p \in Pages : mount(p)
  \/ initWeb3
  \/ reconnectWallet
  \/ \E i \in 1..MaxPending, d \in Detected : detectEthereumProvider_settles(i, d)
  \/ \E i \in 1..MaxPending, g \in Grants, s \in SignerOutcomes : getSigner_settles(i, g, s)
  \/ \E i \in 1..MaxPending, h \in HealthAnswers : checkApiHealth_settles(i, h)
  \/ \E ans \in StoreAnswers : load_settles(ans)
  \/ \E i \in 1..MaxLoads, ans \in ListAnswers : list_settles(i, ans)
  \/ \E s \in Times, e \in Times : onSubmit(s, e)
  \/ \E tx \in TxOutcomes : onSubmit_settles(tx)

PageSpec == Init /\ [][PageNext]_vars

\* ================================================================ logs page
\* a handler of the logs page that calls loadLogs(page, actionFilter,
\* statusFilter); the caller says what becomes of the two selections
LogsReload(handler, page, actionFilter, statusFilter) ==
  LET l == loadLogs(page, actionFilter, statusFilter) IN
  /\ mounted = "logs"
  /\ Len(inflight) < MaxLoads
  /\ click' = [handler |-> handler, page |-> page]
  /\ inflight' = l.inflight
  /\ pagination' = l.pagination
  /\ shown' = l.shown
  /\ load' = l.load
  /\ loading' = l.loading
  /\ lastReq' = l.lastReq
  /\ readRet' = l.readRet
  /\ isAdminRet' = NotCalled
  /\ UNCHANGED <<cfgVars, web3Vars, currentAddress, adminAddress, initRet, callVars,
                 mounted, timers, flows, isConnected, pageIsAdmin, why, submitting,
                 pageTx, currentPage, searches, selectedElectionId, candidates, candTx>>

\* a handler of the mounted page that only calls setState
OnlySetState(handler) ==
  /\ click' = [handler |-> handler, page |-> 0]
  /\ isAdminRet' = NotCalled
  /\ readRet' = NoRead
  /\ lastReq' = NoReq
  /\ UNCHANGED <<cfgVars, web3Vars, currentAddress, adminAddress, initRet, callVars,
                 mounted, timers, flows, isConnected, loading, pageIsAdmin, load, why,
                 submitting, pageTx, inflight, currentPage, pagination, shown,
                 selectedElectionId, candidates, candTx>>

\* the Action Type select: onChange = setAction(value)
setAction(value) ==
  /\ mounted = "logs"
  /\ value # action
  /\ action' = value
  /\ UNCHANGED <<status, searches>>
  /\ OnlySetState("setAction")

\* the Status select: onChange = setStatus(value)
setStatus(value) ==
  /\ mounted = "logs"
  /\ value # status
  /\ status' = value
  /\ UNCHANGED <<action, searches>>
  /\ OnlySetState("setStatus")

\* Apply Filters: handleFilter = loadLogs(1, action, status)
handleFilter ==
  /\ LogsReload("handleFilter", 1, action, status)
  /\ UNCHANGED <<action, status>>

\* Clear: setAction(''), setStatus(''), loadLogs(1, '', '')
clearFilters ==
  /\ LogsReload("clearFilters", 1, "", "")
  /\ action' = ""
  /\ status' = ""

\* Refresh Logs: loadLogs(currentPage), the filters default to the
\* selections of the render
refreshLogs ==
  /\ LogsReload("refresh", currentPage, action, status)
  /\ UNCHANGED <<action, status>>

\* the pagination bar is rendered when not loading, the list is not empty
\* and there is more than one page
PaginationShown == ~loading /\ shown # NoQuery /\ pagination.pages > 1

\* Previous (disabled on page 1): loadLogs(pagination.page - 1)
previousPage ==
  /\ PaginationShown
  /\ pagination.page # 1
  /\ LogsReload("previous", pagination.page - 1, action, status)
  /\ UNCHANGED <<action, status>>

\* Next (disabled on the last page): loadLogs(pagination.page + 1)
nextPage ==
  /\ PaginationShown
  /\ pagination.page # pagination.pages
  /\ LogsReload("next", pagination.page + 1, action, status)
  /\ UNCHANGED <<action, status>>

\* a page number button: loadLogs(pageNum)
pageNumber(pageNum) ==
  /\ PaginationShown
  /\ pageNum \in 1..pagination.pages
  /\ LogsReload("pageNumber", pageNum, action, status)
  /\ UNCHANGED <<action, status>>

LogsNext ==
  \/ mount("logs")
  \/ initWeb3
  \/ \E i \in 1..MaxPending, d \in Detected : detectEthereumProvider_settles(i, d)
  \/ \E i \in 1..MaxPending, g \in Grants, s \in SignerOutcomes : getSigner_settles(i, g, s)
  \/ \E i \in 1..MaxPending, h \in HealthAnswers : checkApiHealth_settles(i, h)
  \/ \E a \in Accounts : setAdminAddress(a)
  \/ \E i \in 1..MaxLoads, ans \in ListAnswers : list_settles(i, ans)
  \/ \E value \in LogActions : setAction(value)
  \/ \E value \in LogStatuses : setStatus(value)
  \/ handleFilter
  \/ clearFilters
  \/ refreshLogs
  \/ previousPage
  \/ nextPage
  \/ \E pageNum \in 1..MaxPages : pageNumber(pageNum)

LogsSpec == Init /\ [][LogsNext]_vars

\* ======================================================== verify-users page
\* a handler of the verify-users page that calls loadUsers()
UsersReload(handler, page) ==
  LET l == loadUsers(currentPage) IN
  /\ mounted = "verify-users"
  /\ searches + Len(inflight) < MaxLoads + (IF handler = "searchTimer" THEN 1 ELSE 0)
  /\ click' = [handler |-> handler, page |-> page]
  /\ inflight' = l.inflight
  /\ load' = l.load
  /\ lastReq' = l.lastReq
  /\ readRet' = l.readRet
  /\ isAdminRet' = NotCalled
  /\ UNCHANGED <<cfgVars, web3Vars, currentAddress, adminAddress, initRet, callVars,
                 mounted, timers, flows, isConnected, loading, pageIsAdmin, why,
                 submitting, pageTx, action, status, currentPage, pagination, shown,
                 selectedElectionId, candidates, candTx>>

\* the search box (always rendered): handleSearch sets the search term and
\* a timer for loadUsers that nothing clears
handleSearch ==
  /\ mounted = "verify-users"
  /\ searches + Len(inflight) < MaxLoads
  /\ searches' = searches + 1
  /\ UNCHANGED <<action, status>>
  /\ OnlySetState("handleSearch")

\* a search timer fires: loadUsers()
searchTimer ==
  /\ searches > 0
  /\ searches' = searches - 1
  /\ UsersReload("searchTimer", 0)

\* the pagination bar and the Refresh button are inside the branch rendered
\* when loading is false; the bar needs more than one page
UsersTableShown == mounted = "verify-users" /\ ~loading

\* the pages the bar can ask for: currentPage - 1 (Previous, disabled on
\* page 1), currentPage + 1 (Next, disabled on the last page) and the
\* numbered buttons
OfferedPages == 1..pagination.pages

\* handlePageChange(page): returns when page is out of range, otherwise
\* calls loadUsers(), which asks for the currentPage of its closure
handlePageChange(page) ==
  /\ UsersTableShown
  /\ pagination.pages > 1
  /\ page \in OfferedPages
  /\ ~(page < 1 \/ page > pagination.pages)
  /\ searches' = searches
  /\ UsersReload("handlePageChange", page)

\* Refresh: loadUsers()
refreshUsers ==
  /\ UsersTableShown
  /\ searches' = searches
  /\ UsersReload("refresh", 0)

VerifyNext ==
  \/ mount("verify-users")
  \/ initWeb3
  \/ \E i \in 1..MaxPending, d \in Detected : detectEthereumProvider_settles(i, d)
  \/ \E i \in 1..MaxPending, g \in Grants, s \in SignerOutcomes : getSigner_settles(i, g, s)
  \/ \E i \in 1..MaxPending, h \in HealthAnswers : checkApiHealth_settles(i, h)
  \/ \E i \in 1..MaxLoads, ans \in ListAnswers : list_settles(i, ans)
  \/ handleSearch
  \/ searchTimer
  \/ \E page \in 1..MaxPages : handlePageChange(page)
  \/ refreshUsers

VerifySpec == Init /\ [][VerifyNext]_vars

\* ==================================================== manage-candidates page
\* the URL's electionId parameter (0: absent)
ElectionParams == {0} \cup ElectionIds

\* the page is opened: selectedElectionId starts from the URL parameter and
\* the mount effect calls loadElections at once (no timer), which awaits
\* web3Service.initialize().  In dummy mode nothing is waited for: the
\* elections are loaded, the first one selected and its candidates loaded
mountCandidates(param) ==
  /\ mounted # "manage-candidates"
  /\ Len(timers) + Len(flows) < MaxPending
  /\ mounted' = "manage-candidates"
  /\ timers' = Stale(timers)
  /\ pageIsAdmin' = FALSE
  /\ why' = "none"
  /\ submitting' = FALSE
  /\ pageTx' = [pageTx EXCEPT !.live = FALSE]
  /\ click' = NoClick
  /\ inflight' = <<>>
  /\ action' = ""
  /\ status' = ""
  /\ currentPage' = 1
  /\ pagination' = FirstPage
  /\ shown' = NoQuery
  /\ searches' = 0
  /\ candTx' = NoCandTx
  /\ IF dummyMode
     THEN /\ flows' = Stale(flows)
          /\ isConnected' = TRUE
          /\ loading' = FALSE
          /\ load' = loadElections(Web3Service_getElections).load
          /\ selectedElectionId' = 1
          /\ candidates' = loadCandidates(1, Web3Service_getCandidates(1))
          /\ readRet' = [op |-> "getCandidates", failed |-> FALSE,
                         outcome |-> Web3Service_getCandidates(1), toast |-> ""]
     ELSE /\ flows' = Append(Stale(flows), [page |-> "manage-candidates", live |-> TRUE,
                                            by |-> "effect", phase |-> "detect"])
          /\ isConnected' = FALSE
          /\ loading' = TRUE
          /\ load' = "none"
          /\ selectedElectionId' = param
          /\ candidates' = NoCandidates
          /\ readRet' = NoRead
  /\ isAdminRet' = NotCalled
  /\ lastReq' = NoReq
  /\ UNCHANGED <<cfgVars, web3Vars, currentAddress, adminAddress, initRet, callVars>>

\* the election select (disabled by !isConnected || loading; its options
\* are the loaded elections): setSelectedElectionId(id).  The selection
\* effect then calls loadCandidates(id), which waits for nothing
setSelectedElectionId(id) ==
  /\ mounted = "manage-candidates"
  /\ isConnected
  /\ ~loading
  /\ load = "loaded"
  /\ id # selectedElectionId
  /\ selectedElectionId' = id
  /\ candidates' = loadCandidates(id, Web3Service_getCandidates(id))
  /\ loading' = FALSE
  /\ click' = [handler |-> "setSelectedElectionId", page |-> 0]
  /\ readRet' = [op |-> "getCandidates", failed |-> FALSE,
                 outcome |-> Web3Service_getCandidates(id), toast |-> ""]
  /\ isAdminRet' = NotCalled
  /\ lastReq' = NoReq
  /\ UNCHANGED <<cfgVars, web3Vars, currentAddress, adminAddress, initRet, callVars,
                 mounted, timers, flows, isConnected, pageIsAdmin, load, why,
                 submitting, pageTx, inflight, action, status, currentPage,
                 pagination, shown, searches, candTx>>

\* what the clock says about the selected election
Clock == {"before-end", "after-end"}

\* the Add Candidate form is rendered for a selected election; its fields
\* are disabled by !isConnected || submitLoading, its button also once the
\* selected election has ended
CandidateFormEnabled(now) ==
  /\ mounted = "manage-candidates"
  /\ selectedElectionId # 0
  /\ isConnected
  /\ ~submitting
  /\ now = "before-end"

\* onSubmit of the form: web3Service.addCandidate(selectedElectionId, ...)
\* is called.  When it resolves at once (dummy mode, no contract) the rest
\* of onSubmit runs in the same step: on true loadCandidates(selectedElectionId)
addCandidate_onSubmit(now) ==
  /\ CandidateFormEnabled(now)
  /\ candTx.state = "none"
  /\ IF Web3Service_addCandidate(selectedElectionId) = "pending"
     THEN /\ submitting' = TRUE
          /\ candTx' = [state |-> "pending", id |-> selectedElectionId]
          /\ readRet' = NoRead
          /\ UNCHANGED <<candidates, loading>>
     ELSE /\ submitting' = FALSE
          /\ candTx' = candTx
          /\ IF Web3Service_addCandidate(selectedElectionId) = "true"
             THEN /\ candidates' = loadCandidates(selectedElectionId,
                                     Web3Service_getCandidates(selectedElectionId))
                  /\ loading' = FALSE
                  /\ readRet' = [op |-> "getCandidates", failed |-> FALSE,
                                 outcome |-> Web3Service_getCandidates(selectedElectionId),
                                 toast |-> ""]
             ELSE /\ readRet' = NoRead
                  /\ UNCHANGED <<candidates, loading>>
  /\ click' = [handler |-> "onSubmit", page |-> 0]
  /\ isAdminRet' = NotCalled
  /\ lastReq' = NoReq
  /\ UNCHANGED <<cfgVars, web3Vars, currentAddress, adminAddress, initRet, callVars,
                 mounted, timers, flows, isConnected, pageIsAdmin, load, why, pageTx,
                 inflight, action, status, currentPage, pagination, shown, searches,
                 selectedElectionId>>

\* the transaction of onSubmit is mined or throws.  onSubmit goes on in the
\* closure of the render it was called from: on true it calls
\* loadCandidates with the selectedElectionId of that render (candTx.id),
\* and in any case clears submitLoading
addCandidate_settled(tx) ==
  /\ candTx.state = "pending"
  /\ candTx' = NoCandTx
  /\ submitting' = FALSE
  /\ IF Web3Service_settle("pending", tx) = "true"
     THEN /\ candidates' = loadCandidates(candTx.id, Web3Service_getCandidates(candTx.id))
          /\ loading' = FALSE
          /\ readRet' = [op |-> "getCandidates", failed |-> FALSE,
                         outcome |-> Web3Service_getCandidates(candTx.id), toast |-> ""]
     ELSE /\ readRet' = NoRead
          /\ UNCHANGED <<candidates, loading>>
  /\ click' = NoClick
  /\ isAdminRet' = NotCalled
  /\ lastReq' = NoReq
  /\ UNCHANGED <<cfgVars, web3Vars, currentAddress, adminAddress, initRet, callVars,
                 mounted, timers, flows, isConnected, pageIsAdmin, load, why, pageTx,
                 inflight, action, status, currentPage, pagination, shown, searches,
                 selectedElectionId>>

CandidatesNext ==
  \/ \E param \in ElectionParams : mountCandidates(param)
  \/ \E i \in 1..MaxPending, d \in Detected : detectEthereumProvider_settles(i, d)
  \/ \E i \in 1..MaxPending, g \in Grants, s \in SignerOutcomes : getSigner_settles(i, g, s)
  \/ \E id \in ElectionIds : setSelectedElectionId(id)
  \/ \E now \in Clock : addCandidate_onSubmit(now)
  \/ \E tx \in TxOutcomes : addCandidate_settled(tx)

CandidatesSpec == Init /\ [][CandidatesNext]_vars

\* =================================================================== claims
\* case-insensitive equality of two strings, letter by letter
CasePairs == { <<"a", "A">>, <<"b", "B">>, <<"c", "C">>, <<"d", "D">> }

SameLetter(c, d) == c = d \/ <<c, d>> \in CasePairs \/ <<d, c>> \in CasePairs

EqIgnoreCase(s, t) ==
  /\ Len(s) = Len(t)
  /\ \A i \in 1..Len(s) : SameLetter(s[i], t[i])

\* a coordinator write operation o has resolved
Done(o) == op = o /\ pc \in {"Committed", "Rejected"}

\* the apiService.verifyVoter call of this invocation threw: before sending
\* (no request went out) or because the store answered with an error
OffchainFailed == Len(sent) = 0 \/ storeAnswer.kind = "error"

\* the apiService.verifyVoter call of this invocation returned the store's
\* 2xx response
OffchainSucceeded == Len(sent) = 1 /\ storeAnswer.kind = "ok"

\* C1: in dev mode isAdmin() returns true for every non-null current
\* address, whatever the configured admin address is
C1_DevModeAdmin ==
  (DEV_MODE /\ isAdminRet.called /\ isAdminRet.cur # NULL) => isAdminRet.ret

C1_Witness ==
  /\ DEV_MODE
  /\ isAdminRet.called
  /\ isAdminRet.cur # NULL
  /\ ~EqIgnoreCase(isAdminRet.cur, ADMIN_ADDRESS)
  /\ isAdminRet.ret

\* C2: outside dev mode isAdmin() is true exactly when the current address
\* equals the admin address ignoring case; with no current address it is
\* false, in dev mode too
C2_AdminIffSameAddress ==
  isAdminRet.called =>
    /\ isAdminRet.cur = NULL => ~isAdminRet.ret
    /\ ~DEV_MODE =>
         (isAdminRet.ret <=>
            (isAdminRet.cur # NULL /\ EqIgnoreCase(isAdminRet.cur, ADMIN_ADDRESS)))

C2_Witness ==
  /\ ~DEV_MODE
  /\ isAdminRet.called
  /\ isAdminRet.ret
  /\ isAdminRet.cur # ADMIN_ADDRESS

\* C3 (as stated): whenever the ledger call failed and the off-chain verify
\* call succeeded, verifyVoter returns true
C3_LedgerFailureDoesNotBlock ==
  (Done("verifyVoter") /\ ledgerRes = "false" /\ OffchainSucceeded) => result = "true"

\* C4: whenever the off-chain verify call fails, verifyVoter returns false,
\* whether the ledger call succeeded, failed or was skipped
C4_OffchainFailureRejects ==
  (Done("verifyVoter") /\ OffchainFailed) => (result = "false" /\ pc = "Rejected")

C4_Witness ==
  /\ Done("verifyVoter")
  /\ ledgerRes = "true"
  /\ Len(sent) = 1
  /\ storeAnswer.kind = "error"
  /\ result = "false"

C7_HeaderIsCurrentAddress ==
  (lastReq.kind # "none" /\ lastReq.cur # NULL) => lastReq.header = lastReq.cur

\* C8 (as stated): in dummy-ledger mode, after the connect step, verifyVoter
\* on a voter the store accepts returns true with a confirmation message and
\* one VERIFY_VOTER request reaches the store
C8_DummyModeVerifySucceeds ==
  (dummyMode /\ initRet # "none" /\ Done("verifyVoter")
     /\ storeAnswer.kind = "ok" /\ storeAnswer.message # "")
  => /\ result = "true"
     /\ toast = [kind |-> "success", text |-> storeAnswer.message]
     /\ Len(sent) = 1
     /\ sent[1].kind = "VERIFY_VOTER"

C10_ExactlyOneVerifyRequest ==
  Done("verifyVoter") => Len(sent) = 1

\* C11: a step in which the coordinator performs getAdminStats, listVoters
\* or getAdminLogs makes no ledger-client call and leaves provider, signer
\* and contract as they were
C11_ReadsBypassLedger ==
  [][(readRet'.op \in CoordinatorReads) =>
       /\ provider' = provider
       /\ signer' = signer
       /\ contract' = contract
       /\ ledgerCalls' = ledgerCalls
       /\ ledgerRes' = ledgerRes]_vars

C11_Witness ==
  /\ readRet.op = "getAdminStats"
  /\ lastReq.kind = "ADMIN_STATS"
  /\ contract # NULL
  /\ ledgerCalls = 0

\* C12: when the apiService call of getAdminStats, listVoters or
\* getAdminLogs fails, the coordinator's call throws to its caller; it never
\* resolves to an empty or default result
C12_FailedReadPropagates ==
  (readRet.op \in CoordinatorReads /\ readRet.failed) =>
    (readRet.outcome = "threw" /\ readRet.toast # "")

C12_Witness ==
  /\ readRet.op = "listVoters"
  /\ lastReq.kind = "LIST_VOTERS"
  /\ readRet.failed
  /\ readRet.outcome = "threw"

\* C15: with no wallet provider detected, web3Service.initialize() (outside
\* dummy mode, where nothing is detected at all) and
\* web3Integration.initialize() return false, and both leave signer,
\* contract and currentAddress as they are; checked in every reachable state
\* for every behaviour of the wallet
C15_NoProviderReturnsFalse ==
  \A g \in Grants, s \in SignerOutcomes, h \in HealthAnswers :
    LET w == Web3Service_initialize(NULL, g, s)
        i == Web3Integration_initialize(NULL, g, s, h) IN
    /\ ~dummyMode => w.ret = FALSE
    /\ i.ret = FALSE
    /\ w.signer = signer
    /\ w.contract = contract
    /\ i.signer = signer
    /\ i.contract = contract
    /\ i.currentAddress = currentAddress

C15_Witness ==
  /\ ~dummyMode
  /\ provider = NULL
  /\ initRet = "false"
  /\ signer # NULL
  /\ contract # NULL
  /\ currentAddress # NULL

\* C16 (as stated): whenever the most recent initialize() returned false,
\* currentAddress is null and isAdmin() is false
C16_DisconnectedHasNoIdentity ==
  initRet = "false" => (currentAddress = NULL /\ ~isUserAdmin)

\* C17: every step of isAdmin, registerVoter, verifyVoter, scheduleElection,
\* addCandidate or a read leaves currentAddress and ADMIN_ADDRESS (and the
\* off-chain client's adminAddress) unchanged; ADMIN_ADDRESS never changes;
\* a step that changes currentAddress is an initialize() that returned true
\* and stored the signer's address
C17_OnlyInitializeWritesIdentity ==
  [][/\ (op' # op \/ pc' # pc \/ readRet'.op # "none" \/ isAdminRet'.called) =>
          /\ currentAddress' = currentAddress
          /\ ADMIN_ADDRESS' = ADMIN_ADDRESS
          /\ adminAddress' = adminAddress
     /\ ADMIN_ADDRESS' = ADMIN_ADDRESS
     /\ (currentAddress' # currentAddress) =>
          (initRet' = "true" /\ currentAddress' = signer' /\ op' = op /\ pc' = pc)]_vars

C17_Witness ==
  /\ Done("registerVoter")
  /\ result = "true"
  /\ currentAddress # NULL
  /\ currentAddress = args.address

\* C19: scheduleElection does not look at the order of startTime and endTime:
\* the ledger client starts the same call for (s, e) and (e, s), and an
\* invocation with startTime > endTime ends as the ledger result says, with
\* the ordinary success or failure text
C19_StartAfterEndAccepted ==
  /\ \A s \in Times, e \in Times :
       Web3Service_scheduleElection(s, e) = Web3Service_scheduleElection(e, s)
  /\ (op = "scheduleElection" /\ pc = "LedgerAttempt" /\ args.startTime > args.endTime) =>
       ledgerRes \in {"true", "false", "pending"} /\ (dummyMode => ledgerRes = "true")
  /\ (Done("scheduleElection") /\ args.startTime > args.endTime) =>
       /\ result = ledgerRes
       /\ toast = IF result = "true"
                  THEN [kind |-> "success", text |-> ElectionScheduled]
                  ELSE [kind |-> "error", text |-> FailedToSchedule]

C19_Witness ==
  /\ Done("scheduleElection")
  /\ args.startTime > args.endTime
  /\ ~dummyMode
  /\ result = "true"
  /\ toast.text = ElectionScheduled

\* C20: in dummy mode provider, signer and contract keep their initial
\* values whatever is called, and verifyUser, scheduleElection and
\* addCandidate return true for every input
C20_DummyModeBypassesWallet ==
  dummyMode =>
    /\ provider = NULL
    /\ signer = NULL
    /\ contract = NULL
    /\ \A v \in Voters : Web3Service_verifyUser(v) = "true"
    /\ \A s \in Times, e \in Times : Web3Service_scheduleElection(s, e) = "true"
    /\ \A id \in ElectionIds : Web3Service_addCandidate(id) = "true"
    /\ (op \in {"scheduleElection", "addCandidate"} /\ pc # "Idle") =>
         ledgerRes = "true"
    /\ readRet.op \in {"getElections", "getCandidates"} => readRet.outcome = "mock"

C20_Witness ==
  /\ dummyMode
  /\ initRet = "false"
  /\ Done("addCandidate")
  /\ result = "true"

\* the coordinator holds a wallet account that is connected, is not the
\* admin address, and dev mode is off
Unauthorized == signer # NULL /\ currentAddress = signer /\ ~isUserAdmin

\* C13 (as stated): in an Unauthorized state no step of the UI starts an
\* administrative write on the ledger
C13_UnauthorizedCannotWrite ==
  [][Unauthorized => ~(pageTx.state = "none" /\ pageTx'.state = "pending")]_vars

\* C14 (as stated): on a read-only view whose connect step has failed for
\* lack of a wallet provider, the page's data load has been started
C14_NoProviderStillLoads ==
  (mounted \in ReadViews /\ why = "no-provider") => load # "none"

\* C18 (as stated): at most one call of web3Integration.initialize() is in
\* flight
C18_OneConnectFlow ==
  Cardinality({i \in 1..Len(flows) : flows[i].page \in CoordinatorPages}) <= 1

\* the write operations of the coordinator
WriteOps == {"registerVoter", "verifyVoter", "scheduleElection", "addCandidate"}

\* C22: a verifyVoter invocation leaves Idle for LedgerAttempt when a
\* contract exists and for OffchainAttempt (ledger step skipped, no ledger
\* call) only when none exists; LedgerAttempt is left once, after a single
\* ledger call whatever its outcome, for OffchainAttempt with the off-chain
\* call made; OffchainAttempt is left for Committed with true or Rejected
\* with false
C22_VerifyVoterStateMachine ==
  [][/\ (pc = "Idle" /\ op' = "verifyVoter" /\ pc' # "Idle") =>
          \/ contract # NULL /\ pc' = "LedgerAttempt" /\ ledgerCalls' = 1 /\ apiCalls' = 0
          \/ contract = NULL /\ pc' = "OffchainAttempt" /\ ledgerCalls' = 0 /\ apiCalls' = 1
     /\ (op = "verifyVoter" /\ pc = "LedgerAttempt"
           /\ (pc' # pc \/ ledgerCalls' # ledgerCalls)) =>
          /\ pc' = "OffchainAttempt"
          /\ ledgerCalls' = 1
          /\ ledgerRes' \in {"true", "false"}
          /\ apiCalls' = 1
     /\ (op = "verifyVoter" /\ pc = "OffchainAttempt" /\ pc' # pc) =>
          /\ pc' \in {"Committed", "Rejected"}
          /\ (pc' = "Committed") <=> (result' = "true")
          /\ (pc' = "Rejected") <=> (result' = "false")
          /\ ledgerCalls' = ledgerCalls
          /\ apiCalls' = apiCalls
     /\ (op = "verifyVoter" /\ pc \in {"Committed", "Rejected"} /\ pc' # pc) =>
          (pc' = "Idle" /\ op' = "none")]_vars

C22_Witness ==
  /\ Done("verifyVoter")
  /\ ledgerCalls = 1
  /\ ledgerRes = "false"
  /\ apiCalls = 1
  /\ pc = "Committed"
  /\ result = "true"

\* C23: while the ledger call of a verifyVoter invocation is pending no
\* off-chain call has been made and no request sent; once the off-chain call
\* has been made the ledger outcome is known (true, false or skipped)
C23_LedgerThenOffchain ==
  op = "verifyVoter" =>
    /\ pc = "LedgerAttempt" =>
         (ledgerRes = "pending" /\ apiCalls = 0 /\ Len(sent) = 0 /\ apiState = "none")
    /\ apiCalls >= 1 => ledgerRes \in {"true", "false", "skipped"}

C23_Witness ==
  /\ op = "verifyVoter"
  /\ pc = "OffchainAttempt"
  /\ ledgerCalls = 1
  /\ ledgerRes = "true"
  /\ apiState = "sent"
  /\ Len(sent) = 1

\* C24: every write operation of the coordinator that has completed has
\* resolved to true or false, also when its ledger call threw or its
\* off-chain call threw; no other value of result and no other completed
\* operation exists
C24_WritesResolveToBoolean ==
  /\ result \in {"none", "true", "false"}
  /\ pc \in {"Committed", "Rejected"} => op \in WriteOps
  /\ \A o \in WriteOps : Done(o) => result \in {"true", "false"}
  /\ \A ans \in RegisterAnswers : registerVoter_outcome(ans).result \in {"true", "false"}
  /\ \A st \in {"sent", "threw"}, ans \in StoreAnswers :
       verifyVoter_outcome(st, ans).result \in {"true", "false"}

C24_Witness ==
  /\ Done("registerVoter")
  /\ storeAnswer.kind = "error"
  /\ apiState = "failed"
  /\ result = "false"
  /\ toast.text = FailedToRegister

\* C29: for every behaviour of the wallet and of the health endpoint,
\* initialize() returns true exactly when web3Service.initialize() returned
\* true and a signer is present, currentAddress is then that signer's
\* address, and the value returned and the fields left behind are the same
\* as with a healthy API; checkApiHealth never throws
C29_HealthCheckIrrelevant ==
  \A d \in Detected, g \in Grants, s \in SignerOutcomes, h \in HealthAnswers :
    LET w == Web3Service_initialize(d, g, s)
        i == Web3Integration_initialize(d, g, s, h) IN
    /\ i.ret <=> (w.ret /\ w.signer # NULL)
    /\ i.ret => i.currentAddress = w.signer
    /\ ~i.ret => i.currentAddress = currentAddress
    /\ i = Web3Integration_initialize(d, g, s, "healthy")
    /\ ~checkApiHealth(h).threw

C29_Witness ==
  /\ initRet = "true"
  /\ signer # NULL
  /\ currentAddress = signer
  /\ ~checkApiHealth("failing").value
  /\ Web3Integration_initialize(ETHEREUM, "granted", signer, "failing").ret

\* C30: a completed registerVoter has returned true exactly when it was
\* called with a current address and the store's response reported
\* onBlockchain; called without a current address it has made no off-chain
\* call, sent no request and returned false
C30_RegisterIffOnBlockchain ==
  /\ Done("registerVoter") =>
       /\ (result = "true") <=>
            (args.address # NULL /\ storeAnswer.kind = "ok" /\ storeAnswer.onBlockchain)
       /\ args.address = NULL =>
            (result = "false" /\ apiCalls = 0 /\ Len(sent) = 0
               /\ toast.text = WalletNotConnected)
       /\ args.address # NULL => (apiCalls = 1 /\ Len(sent) = 1)
  /\ \A ans \in RegisterAnswers :
       (registerVoter_outcome(ans).result = "true") <=> (ans.kind = "ok" /\ ans.onBlockchain)

C30_Witness ==
  /\ Done("registerVoter")
  /\ args.address # NULL
  /\ storeAnswer.kind = "ok"
  /\ ~storeAnswer.onBlockchain
  /\ result = "false"
  /\ toast.text = RegisteredOffchainOnly

\* the handlers of the logs page that navigate or refresh
NavigationClicks == {"refresh", "previous", "next", "pageNumber"}

\* C21: on the logs page, after any filter selections, applications and
\* navigations, a click on Clear issues a log request for page 1 with no
\* action and no status filter and leaves both selections empty
C21_ClearRequestsUnfilteredFirstPage ==
  click.handler = "clearFilters" =>
    /\ lastReq.kind = "ADMIN_LOGS"
    /\ lastReq.body = Query(1, "", "")
    /\ action = ""
    /\ status = ""

\* C25: on the voter-verification page, choosing page p with
\* 1 <= p <= totalPages issues a voter-listing request for page p with page
\* size 10 and verified = false
C25_PageChangeRequestsThatPage ==
  click.handler = "handlePageChange" =>
    /\ lastReq.kind = "LIST_VOTERS"
    /\ lastReq.body = [page |-> click.page, limit |-> 10, verified |-> FALSE]

\* C26: on the voter-verification page, once the connect step has succeeded
\* and the voter-list request has completed, with nothing left pending, the
\* page has left its loading state
C26_LoadingEndsAfterLoad ==
  ( /\ mounted = "verify-users"
    /\ isConnected
    /\ load \in {"loaded", "failed"}
    /\ inflight = <<>>
    /\ timers = <<>>
    /\ flows = <<>>
    /\ searches = 0 )
  => ~loading

\* C27: on the logs page, a request made by Previous, Next, a page number
\* or Refresh Logs carries the action and status filters of the request that
\* produced the results on display, whatever the selections are
C27_NavigationKeepsAppliedFilters ==
  ( /\ click.handler \in NavigationClicks
    /\ lastReq.kind = "ADMIN_LOGS"
    /\ shown # NoQuery )
  => /\ lastReq.body.action = shown.action
     /\ lastReq.body.status = shown.status

\* C28: on the manage-candidates page, once no candidate load and no
\* submission is pending, the candidate list on display is the one that was
\* requested for the selected election
C28_CandidatesOfSelectedElection ==
  ( /\ mounted = "manage-candidates"
    /\ flows = <<>>
    /\ candTx.state = "none"
    /\ selectedElectionId # 0
    /\ candidates.got = "mock" )
  => candidates.of = selectedElectionId
====
